---- MODULE Spec2Model ----
(***************************************************************************)
(* A model of script.js of inchinet/qrscanner: the live-camera loop        *)
(* (startScanning / handleStream / tick / stopScanning), the still-image   *)
(* run (scanImageFile: the ZXing pre-pass followed by the jsQR strategy    *)
(* list of tryMultipleDetectionMethods) and the UI they update.            *)
(*                                                                         *)
(* JavaScript runs every handler to completion, so one action is one       *)
(* handler, promise reaction or resumption after an await.  The two        *)
(* decoders (jsQR, ZXing) and the browser (getUserMedia, video.play,       *)
(* requestAnimationFrame, FileReader, Image) are the environment: what a   *)
(* decoder answers for an image is an attribute of the image, and a        *)
(* pending promise settles at any later time.  jsQR is loaded; the ZXing   *)
(* global is the page's to provide: it can be missing (the set-up of       *)
(* lines 141-143 throws and the handler of line 162 logs it), and its      *)
(* decodeFromImageElement either returns a promise or throws before it     *)
(* returns one.                                                            *)
(*                                                                         *)
(* The pixel filters (convertToGrayscale ... applyMedianFilter) are        *)
(* modelled sample by sample on small ImageData buffers, in a              *)
(* specification of their own (SpecFilters); the page model keeps to what  *)
(* the decoders answer for an image.                                       *)
(*                                                                         *)
(* Scale factors are held as percentages (1.0 = 100) so that               *)
(* Math.floor(img.width * scale) is integer arithmetic; every factor the   *)
(* code uses (0.25, 0.5, 0.75, 1.0, 1.5, 2.0) is exact in binary.          *)
(***************************************************************************)
EXTENDS Integers, Sequences, FiniteSets, TLC

VARIABLES
    cam,      \* the camera side: currentStream, animationFrameId, browser promises
    ui,       \* the DOM elements the script writes
    runs,     \* the still-image runs, in the order scanImageFile started them
    alerts,   \* number of alert() dialogs raised so far
    lastCall, \* which of startScanning / stopScanning was called last
    session,  \* what this browsing session offers: the files that can be picked,
              \* and the ZXing library the page has got
    buffer    \* the ImageData a filter chain works on, and the filters applied

vars == <<cam, ui, runs, alerts, lastCall, session, buffer>>

----------------------------------------------------------------------------
(* Bounds of the model *)

\* still-image runs (file selections) in one session
MaxRuns == 2

\* calls of startScanning in one session (the one at page load included)
MaxStarts == 3

\* the same, in the orchestrator model (one still-image run)
OrchStarts == 2

\* filters applied to one buffer, one after the other
MaxFilters == 2

\* how far apart the samples of a 5 x 5 window lie where the bilateral
\* filter is run (its mean is a choice among the values in between)
MaxSpread == 1

----------------------------------------------------------------------------
(* JavaScript values: null, or a string *)

Null == [null |-> TRUE, text |-> ""]

Str(t) == [null |-> FALSE, text |-> t]

\* JavaScript truthiness of a string-or-null value: if (result)
Truthy(v) == ~v.null /\ v.text # ""

\* the payloads a QR code of the model encodes
QrTexts == {"https://example.com", ""}

----------------------------------------------------------------------------
(* The source image and the two black-box decoders.                        *)
(* An image is what the user's file decodes to: its size, the payload of   *)
(* the QR code in it, and what the decoders make of it: the scales at      *)
(* which ZXing locates the code, the (filter chain, scale) views in which  *)
(* jsQR locates it, and the views on which a filter or jsQR raises.        *)

\* Math.floor(dim * scale), scale in percent
Floor(dim, scale) == (dim * scale) \div 100

\* one filter of a chain, with its parameter (0 when it has none)
Step(op) == [op |-> op, arg |-> 0]

StepArg(op, arg) == [op |-> op, arg |-> arg]

\* what a strategy call did: it threw, or it returned a string or null
Thrown == [threw |-> TRUE, value |-> Null]

Returned(v) == [threw |-> FALSE, value |-> v]

\* The shared body of the scanWith... functions: resample the image to
\* floor(w*scale) x floor(h*scale) on the canvas, read it back (getImageData
\* throws IndexSizeError on a zero width or height), run the filter chain
\* and hand the buffer to jsQR with inversionAttempts 'attemptBoth';
\* return code ? code.data : null.
Scan(img, chain, scale) ==
    LET width  == Floor(img.w, scale)
        height == Floor(img.h, scale)
        view   == [chain |-> chain, scale |-> scale]
    IN  IF width = 0 \/ height = 0 THEN Thrown
        ELSE IF view \in img.raises THEN Thrown
        ELSE IF view \in img.fast THEN Returned(Str(img.text))
        ELSE Returned(Null)

\* the filters scanWithPreprocessing applies, in the order of its if-statements
PreprocessingChain(grayscale, enhanceContrast, sharpen, bilateralFilter, detectEdges) ==
    (IF grayscale THEN <<Step("grayscale")>> ELSE <<>>)
      \o (IF bilateralFilter THEN <<Step("bilateral")>> ELSE <<>>)
      \o (IF enhanceContrast THEN <<Step("contrast")>> ELSE <<>>)
      \o (IF sharpen THEN <<Step("sharpen")>> ELSE <<>>)
      \o (IF detectEdges THEN <<Step("sobel")>> ELSE <<>>)

FixedThresholdChain(threshold) == <<StepArg("fixedThreshold", threshold)>>

DenoiseChain == <<Step("grayscale"), Step("gaussianBlur"), Step("otsu")>>

MedianChain == <<Step("grayscale"), Step("median")>>

OtsuChain == <<Step("grayscale"), Step("otsu")>>

HistogramEqualizationChain == <<Step("grayscale"), Step("histogramEqualization")>>

scanWithPreprocessing(img, grayscale, enhanceContrast, sharpen, bilateralFilter, detectEdges, scale) ==
    Scan(img, PreprocessingChain(grayscale, enhanceContrast, sharpen, bilateralFilter, detectEdges), scale)

scanWithFixedThreshold(img, threshold, scale) == Scan(img, FixedThresholdChain(threshold), scale)

scanWithDenoise(img, scale) == Scan(img, DenoiseChain, scale)

scanWithMedian(img, scale) == Scan(img, MedianChain, scale)

scanWithOtsuThreshold(img, scale) == Scan(img, OtsuChain, scale)

scanWithHistogramEqualization(img, scale) == Scan(img, HistogramEqualizationChain, scale)

\* the ZXing global as the page has it: its decodeFromImageElement returns
\* a promise, or throws before it returns one, or there is no such global
ZXingLibraries == {"promise", "throws", "undefined"}

\* zxingReader.decodeFromImageElement(tempCanvas) on the image drawn at
\* floor(w*scale) x floor(h*scale).  threw: the call itself throws, and the
\* catch (e) { } of line 160 swallows it before anything is awaited.
\* Otherwise the promise it returns is awaited: a result with its text, or
\* a rejection (no code found, or a canvas without pixels), which the same
\* catch swallows.
decodeFromImageElement(zxing, img, scale) ==
    IF zxing = "throws" THEN [threw |-> TRUE, ok |-> FALSE, text |-> ""]
    ELSE IF Floor(img.w, scale) = 0 \/ Floor(img.h, scale) = 0
        THEN [threw |-> FALSE, ok |-> FALSE, text |-> ""]
    ELSE IF scale \in img.robust THEN [threw |-> FALSE, ok |-> TRUE, text |-> img.text]
    ELSE [threw |-> FALSE, ok |-> FALSE, text |-> ""]

----------------------------------------------------------------------------
(* The strategy orchestrator *)

\* scales with 0.5 tried before 0.75
scales_HalfBeforeThreeQuarters == <<100, 50, 75, 150, 200>>

\* scales with the reduced image tried before the image as it is
scales_ReducedFirst == <<75, 100, 50, 150, 200>>

\* const scales = [1.0, 0.75, 0.5, 1.5, 2.0]
scales == <<100, 75, 50, 150, 200>>

NoFlags == <<FALSE, FALSE, FALSE, FALSE, FALSE>>

Crush == <<TRUE, TRUE, FALSE, FALSE, FALSE>>

\* the strategy list with the two denoising entries in the other order
methods_MedianBeforeDenoise == <<
    [name |-> "Original", fn |-> "scanWithPreprocessing", flags |-> NoFlags, threshold |-> 0, scale |-> 100],
    [name |-> "Shadow Crusher (Bright - 180)", fn |-> "scanWithFixedThreshold", flags |-> NoFlags, threshold |-> 180, scale |-> 100],
    [name |-> "Shadow Crusher (Super Bright - 210)", fn |-> "scanWithFixedThreshold", flags |-> NoFlags, threshold |-> 210, scale |-> 100],
    [name |-> "Shadow Crusher (Dark - 140)", fn |-> "scanWithFixedThreshold", flags |-> NoFlags, threshold |-> 140, scale |-> 100],
    [name |-> "Crush Texture (Scale 50%)", fn |-> "scanWithPreprocessing", flags |-> Crush, threshold |-> 0, scale |-> 50],
    [name |-> "Crush Texture (Scale 25%)", fn |-> "scanWithPreprocessing", flags |-> Crush, threshold |-> 0, scale |-> 25],
    [name |-> "Crush Texture (Scale 75%)", fn |-> "scanWithPreprocessing", flags |-> Crush, threshold |-> 0, scale |-> 75],
    [name |-> "Median Filter (Grain Removal)", fn |-> "scanWithMedian", flags |-> NoFlags, threshold |-> 0, scale |-> 100],
    [name |-> "Denoise (Blur) + Otsu", fn |-> "scanWithDenoise", flags |-> NoFlags, threshold |-> 0, scale |-> 100],
    [name |-> "Otsu Threshold", fn |-> "scanWithOtsuThreshold", flags |-> NoFlags, threshold |-> 0, scale |-> 100],
    [name |-> "Histogram Equalization", fn |-> "scanWithHistogramEqualization", flags |-> NoFlags, threshold |-> 0, scale |-> 100],
    [name |-> "Upscale 150%", fn |-> "scanWithPreprocessing", flags |-> Crush, threshold |-> 0, scale |-> 150],
    [name |-> "Upscale 200%", fn |-> "scanWithPreprocessing", flags |-> Crush, threshold |-> 0, scale |-> 200] >>

\* the strategy list of tryMultipleDetectionMethods, in source order
methods == <<
    [name |-> "Original", fn |-> "scanWithPreprocessing", flags |-> NoFlags, threshold |-> 0, scale |-> 100],
    [name |-> "Shadow Crusher (Bright - 180)", fn |-> "scanWithFixedThreshold", flags |-> NoFlags, threshold |-> 180, scale |-> 100],
    [name |-> "Shadow Crusher (Super Bright - 210)", fn |-> "scanWithFixedThreshold", flags |-> NoFlags, threshold |-> 210, scale |-> 100],
    [name |-> "Shadow Crusher (Dark - 140)", fn |-> "scanWithFixedThreshold", flags |-> NoFlags, threshold |-> 140, scale |-> 100],
    [name |-> "Crush Texture (Scale 50%)", fn |-> "scanWithPreprocessing", flags |-> Crush, threshold |-> 0, scale |-> 50],
    [name |-> "Crush Texture (Scale 25%)", fn |-> "scanWithPreprocessing", flags |-> Crush, threshold |-> 0, scale |-> 25],
    [name |-> "Crush Texture (Scale 75%)", fn |-> "scanWithPreprocessing", flags |-> Crush, threshold |-> 0, scale |-> 75],
    [name |-> "Denoise (Blur) + Otsu", fn |-> "scanWithDenoise", flags |-> NoFlags, threshold |-> 0, scale |-> 100],
    [name |-> "Median Filter (Grain Removal)", fn |-> "scanWithMedian", flags |-> NoFlags, threshold |-> 0, scale |-> 100],
    [name |-> "Otsu Threshold", fn |-> "scanWithOtsuThreshold", flags |-> NoFlags, threshold |-> 0, scale |-> 100],
    [name |-> "Histogram Equalization", fn |-> "scanWithHistogramEqualization", flags |-> NoFlags, threshold |-> 0, scale |-> 100],
    [name |-> "Upscale 150%", fn |-> "scanWithPreprocessing", flags |-> Crush, threshold |-> 0, scale |-> 150],
    [name |-> "Upscale 200%", fn |-> "scanWithPreprocessing", flags |-> Crush, threshold |-> 0, scale |-> 200] >>

\* methods[i].fn(): the closure of one list entry applied to the image
CallMethod(img, m) ==
    CASE m.fn = "scanWithPreprocessing" ->
            scanWithPreprocessing(img, m.flags[1], m.flags[2], m.flags[3], m.flags[4], m.flags[5], m.scale)
      [] m.fn = "scanWithFixedThreshold" -> scanWithFixedThreshold(img, m.threshold, m.scale)
      [] m.fn = "scanWithDenoise" -> scanWithDenoise(img, m.scale)
      [] m.fn = "scanWithMedian" -> scanWithMedian(img, m.scale)
      [] m.fn = "scanWithOtsuThreshold" -> scanWithOtsuThreshold(img, m.scale)
      [] m.fn = "scanWithHistogramEqualization" -> scanWithHistogramEqualization(img, m.scale)

\* the (filter chain, scale) view a list entry hands to jsQR
MethodChain(m) ==
    CASE m.fn = "scanWithPreprocessing" ->
            PreprocessingChain(m.flags[1], m.flags[2], m.flags[3], m.flags[4], m.flags[5])
      [] m.fn = "scanWithFixedThreshold" -> FixedThresholdChain(m.threshold)
      [] m.fn = "scanWithDenoise" -> DenoiseChain
      [] m.fn = "scanWithMedian" -> MedianChain
      [] m.fn = "scanWithOtsuThreshold" -> OtsuChain
      [] m.fn = "scanWithHistogramEqualization" -> HistogramEqualizationChain

View(m) == [chain |-> MethodChain(m), scale |-> m.scale]

\* one decode attempt as the run's record keeps it: the engine, the index
\* in its list, and the (filter chain, scale) view of the image it decoded
RobustCall(k) ==
    [eng |-> "Robust", i |-> k, name |-> "ZXing", view |-> [chain |-> <<>>, scale |-> scales[k]]]

FastCall(i) == [eng |-> "Fast", i |-> i, name |-> methods[i].name, view |-> View(methods[i])]

\* The for loop over scales of img.onload from scales[k] on, having made
\* `calls` so far, up to where it leaves the handler: each scale is drawn
\* and handed to decodeFromImageElement; a call that throws is swallowed
\* and the loop goes on at once, a call that returns a promise suspends
\* the handler at the await (suspended, at scales[k]); after the last
\* scale the loop is over.
RECURSIVE prepassFrom(_, _, _, _)
prepassFrom(zxing, img, k, calls) ==
    IF k > Len(scales)
        THEN [suspended |-> FALSE, k |-> Len(scales), calls |-> calls]
    ELSE LET now == Append(calls, RobustCall(k))
         IN  IF decodeFromImageElement(zxing, img, scales[k]).threw
                 THEN prepassFrom(zxing, img, k + 1, now)
             ELSE [suspended |-> TRUE, k |-> k, calls |-> now]

\* the loading texts, as tuples: a text, and the attempt counter it shows
Msg(t) == <<t, 0, 0>>

AttemptMsg(i) == <<"Processing image... (Attempt i/n)", i, Len(methods)>>

\* the loop without its early return: it goes through the whole list and
\* returns the last truthy result
RECURSIVE tryFrom_KeepGoing(_, _, _, _)
tryFrom_KeepGoing(img, i, calls, msg) ==
    IF i > Len(methods)
        THEN [result |-> Null, calls |-> calls, msg |-> msg, threw |-> FALSE]
    ELSE LET out  == CallMethod(img, methods[i])
             now  == Append(calls, FastCall(i))
             rest == tryFrom_KeepGoing(img, i + 1, now, AttemptMsg(i))
         IN  IF ~out.threw /\ Truthy(out.value) /\ ~Truthy(rest.result)
                 THEN [rest EXCEPT !.result = out.value]
             ELSE rest

\* the loop with the bound i < methods.length - 1
RECURSIVE tryFrom_StopsOneShort(_, _, _, _)
tryFrom_StopsOneShort(img, i, calls, msg) ==
    IF i > Len(methods) - 1
        THEN [result |-> Null, calls |-> calls, msg |-> msg, threw |-> FALSE]
    ELSE LET out == CallMethod(img, methods[i])
             now == Append(calls, FastCall(i))
         IN  IF ~out.threw /\ Truthy(out.value)
                 THEN [result |-> out.value, calls |-> now, msg |-> AttemptMsg(i), threw |-> FALSE]
             ELSE tryFrom_StopsOneShort(img, i + 1, now, AttemptMsg(i))

\* the loop without try/catch: an exception of a method leaves the function
RECURSIVE tryFrom_NoCatch(_, _, _, _)
tryFrom_NoCatch(img, i, calls, msg) ==
    IF i > Len(methods)
        THEN [result |-> Null, calls |-> calls, msg |-> msg, threw |-> FALSE]
    ELSE LET out == CallMethod(img, methods[i])
             now == Append(calls, FastCall(i))
         IN  IF out.threw
                 THEN [result |-> Null, calls |-> now, msg |-> AttemptMsg(i), threw |-> TRUE]
             ELSE IF Truthy(out.value)
                 THEN [result |-> out.value, calls |-> now, msg |-> AttemptMsg(i), threw |-> FALSE]
             ELSE tryFrom_NoCatch(img, i + 1, now, AttemptMsg(i))

\* The for loop of tryMultipleDetectionMethods from index i on, having made
\* `calls` so far: the loading text is set, the method is called inside
\* try/catch, a truthy result is returned at once, anything else (a falsy
\* result, a caught exception) goes on to i + 1; null after the last.
\* threw: an exception left the function (the catch prevents it).
RECURSIVE tryFrom(_, _, _, _)
tryFrom(img, i, calls, msg) ==
    IF i > Len(methods)
        THEN [result |-> Null, calls |-> calls, msg |-> msg, threw |-> FALSE]
    ELSE LET out == CallMethod(img, methods[i])
             now == Append(calls, FastCall(i))
         IN  IF ~out.threw /\ Truthy(out.value)
                 THEN [result |-> out.value, calls |-> now, msg |-> AttemptMsg(i), threw |-> FALSE]
             ELSE tryFrom(img, i + 1, now, AttemptMsg(i))

tryMultipleDetectionMethods(img, msg) == tryFrom(img, 1, <<>>, msg)

----------------------------------------------------------------------------
(* The UI update functions *)

\* updateUIForScanning()
updateUIForScanning ==
    [found |-> FALSE, label |-> FALSE, text |-> "", href |-> "#", again |-> FALSE,
     loading |-> TRUE, msg |-> Msg("Loading camera..."), line |-> TRUE]

\* updateUIWithResult(url)
updateUIWithResult(u, url) ==
    [u EXCEPT !.loading = FALSE, !.line = FALSE, !.found = TRUE, !.label = TRUE,
              !.text = url, !.href = url, !.again = TRUE]

----------------------------------------------------------------------------
(* The camera: currentStream and animationFrameId (0 is null/undefined),   *)
(* the tracks of every stream getUserMedia has handed out, the pending     *)
(* getUserMedia requests (with the rear-camera constraint, and the         *)
(* fallback ones), the streams whose video.play() promise is pending, the  *)
(* pending requestAnimationFrame callbacks, and the calls of               *)
(* startScanning so far.                                                   *)

\* stopScanning()
stopScanning(c) ==
    LET c1 == IF c.animationFrameId # 0
                  THEN [c EXCEPT !.raf = @ \ {c.animationFrameId}, !.animationFrameId = 0]
                  ELSE c
    IN  IF c1.currentStream # 0
            THEN [c1 EXCEPT !.tracks[c1.currentStream] = "stopped", !.currentStream = 0]
            ELSE c1

\* startScanning(), the camera side: stop, then request the rear camera
startScanning(c) ==
    [stopScanning(c) EXCEPT !.gumEnv = @ + 1, !.starts = @ + 1]

\* handleStream(stream), up to the call of video.play()
handleStream(c) ==
    LET stream == Len(c.tracks) + 1
    IN  [c EXCEPT !.tracks = Append(@, "live"), !.currentStream = stream,
                  !.srcObject = stream, !.plays = @ \cup {stream}]

\* requestAnimationFrame(tick): a handle no pending callback has
RafHandle(pending) == CHOOSE id \in 1..(Cardinality(pending) + 1) : id \notin pending

LiveStreams(c) == {s \in DOMAIN c.tracks : c.tracks[s] = "live"}

----------------------------------------------------------------------------
(* Files the user can pick *)

Views == {View(methods[i]) : i \in 1..Len(methods)}

AllScales == {scales[k] : k \in 1..Len(scales)}

Url == "https://example.com"

Image(w, h, robust, fast, raises, text) ==
    [loads |-> TRUE, w |-> w, h |-> h, robust |-> robust, fast |-> fast,
     raises |-> raises, text |-> text]

\* a file that is not an image: img.onload never fires (there is no onerror)
BrokenFile ==
    [loads |-> FALSE, w |-> 0, h |-> 0, robust |-> {}, fast |-> {}, raises |-> {}, text |-> ""]

AtMostOne(S) == {{}} \cup {{x} : x \in S}

\* image sizes: large, small enough for a scale to floor to zero, and
\* without area (an image that loads with a zero width or height)
Sizes == {<<100, 100>>, <<3, 3>>, <<1, 1>>, <<0, 100>>, <<100, 0>>}

\* the files of the concurrency model: a crisp code, no code, a code only
\* the fixed threshold 180 brings out, and a file that is not an image
SessionFiles ==
    { Image(100, 100, AllScales, Views, {}, Url),
      Image(100, 100, {}, {}, {}, Url),
      Image(100, 100, {}, {View(methods[2])}, {}, Url),
      BrokenFile }

\* the files of the orchestrator model
OrchFiles ==
    { Image(100, 100, r, f, {}, Url) : r \in SUBSET AllScales, f \in {{}, Views} }
    \cup { Image(100, 100, {}, f, x, Url) : f \in AtMostOne(Views) \cup {Views}, x \in AtMostOne(Views) }
    \cup { Image(100, 100, {}, {a, b}, {}, Url) : a \in Views, b \in Views }
    \cup { Image(sz[1], sz[2], r, f, {}, Url) :
              sz \in Sizes, r \in {{}, AllScales}, f \in AtMostOne(Views) \cup {Views} }
    \cup { Image(100, 100, r, f, {}, "") :
              r \in AtMostOne(AllScales) \cup {AllScales}, f \in AtMostOne(Views) \cup {Views} }
    \cup { BrokenFile }

----------------------------------------------------------------------------
(* The still-image runs.  A run is one call of scanImageFile:              *)
(*   reading   FileReader.readAsDataURL is pending                         *)
(*   imgload   img.src is set, img.onload is pending                       *)
(*   zxing     suspended at await decodeFromImageElement, at scales[k]     *)
(*             (k is the last scale the pre-pass has tried, 0 for none)    *)
(*   done      the run reported a result ("found"), reported not-found     *)
(*             ("notfound"), or an exception left img.onload ("error")     *)
(* calls lists the decode attempts the run has invoked so far.             *)
(* interrupted records that, while the run was suspended at a ZXing        *)
(* decode, another file was selected or startScanning was called.          *)

NewRun(f) ==
    [pc |-> "reading", img |-> f, k |-> 0, calls |-> <<>>, status |-> "pending",
     text |-> "", interrupted |-> FALSE]

MarkInterrupted(rs) ==
    [r \in DOMAIN rs |->
        IF rs[r].pc = "zxing" THEN [rs[r] EXCEPT !.interrupted = TRUE] ELSE rs[r]]

DoneRuns == {r \in DOMAIN runs : runs[r].pc = "done"}

\* startScanning calls the session still has room for, once every run that
\* can still end in not-found has been granted its own
UserStartsLeft == session.maxStarts - cam.starts - (session.maxRuns - Cardinality(DoneRuns))

\* fileInput 'change' with a file chosen: scanImageFile up to readAsDataURL
ScanImageFile(f) ==
    /\ Len(runs) < session.maxRuns
    /\ cam' = stopScanning(cam)
    /\ ui' = [updateUIForScanning EXCEPT !.msg = Msg("Processing image...")]
    /\ runs' = Append(MarkInterrupted(runs), NewRun(f))
    /\ lastCall' = "stop"
    /\ UNCHANGED <<alerts, session, buffer>>

\* fileInput 'change' with no file chosen: if (!file) return
ScanImageFileNoFile ==
    /\ Len(runs) < session.maxRuns
    /\ UNCHANGED vars

\* reader.onload: img.src = e.target.result
ReaderLoad(r) ==
    /\ runs[r].pc = "reading"
    /\ runs' = [runs EXCEPT ![r].pc = "imgload"]
    /\ UNCHANGED <<cam, ui, alerts, lastCall, session, buffer>>

\* PHASE 2 without the recovery of line 176: not-found is alerted, the
\* camera is left stopped
Phase2_NoRestart(c, u, run, n) ==
    LET t    == tryMultipleDetectionMethods(run.img, Msg("Crushing shadows..."))
        all  == run.calls \o t.calls
        u1   == [u EXCEPT !.msg = t.msg]
    IN  IF Truthy(t.result)
            THEN [cam |-> c, ui |-> updateUIWithResult(u1, t.result.text), alerts |-> n,
                  restart |-> FALSE,
                  run |-> [run EXCEPT !.pc = "done", !.calls = all, !.status = "found",
                                      !.text = t.result.text]]
        ELSE [cam |-> c, ui |-> u1, alerts |-> n + 1, restart |-> FALSE,
              run |-> [run EXCEPT !.pc = "done", !.calls = all, !.status = "notfound"]]

\* PHASE 2 of img.onload, entered when the pre-pass has found nothing:
\* tryMultipleDetectionMethods, then the result or the alert and
\* startScanning.  Yields the whole next state of (cam, ui, run, alerts).
Phase2(c, u, run, n) ==
    LET t    == tryMultipleDetectionMethods(run.img, Msg("Crushing shadows..."))
        all  == run.calls \o t.calls
        u1   == [u EXCEPT !.msg = t.msg]
    IN  IF t.threw
            THEN [cam |-> c, ui |-> u1, alerts |-> n, restart |-> FALSE,
                  run |-> [run EXCEPT !.pc = "done", !.calls = all, !.status = "error"]]
        ELSE IF Truthy(t.result)
            THEN [cam |-> c, ui |-> updateUIWithResult(u1, t.result.text), alerts |-> n,
                  restart |-> FALSE,
                  run |-> [run EXCEPT !.pc = "done", !.calls = all, !.status = "found",
                                      !.text = t.result.text]]
        ELSE [cam |-> startScanning(c), ui |-> updateUIForScanning, alerts |-> n + 1,
              restart |-> TRUE,
              run |-> [run EXCEPT !.pc = "done", !.calls = all, !.status = "notfound"]]

\* The end of img.onload (lines 166-177) for run r as `run` has it, the
\* loading text being that of u: PHASE 2.  A startScanning it calls
\* interrupts the runs suspended at a decode.
Fallback(r, run, u) ==
    LET p == Phase2(cam, u, run, alerts)
    IN  /\ cam' = p.cam
        /\ ui' = p.ui
        /\ alerts' = p.alerts
        /\ runs' = IF p.restart
                       THEN [MarkInterrupted(runs) EXCEPT ![r] = p.run]
                       ELSE [runs EXCEPT ![r] = p.run]
        /\ lastCall' = IF p.restart THEN "start" ELSE lastCall

\* img.onload of run r from the pre-pass loop at scales[k] on, the loading
\* text being that of u: the handler is suspended at the first decode call
\* that returns a promise, or, none doing so, goes on to PHASE 2
Prepass(r, k, u) ==
    LET p   == prepassFrom(session.zxing, runs[r].img, k, runs[r].calls)
        run == [runs[r] EXCEPT !.k = p.k, !.calls = p.calls]
    IN  IF p.suspended
            THEN /\ ui' = u
                 /\ runs' = [runs EXCEPT ![r] = [run EXCEPT !.pc = "zxing"]]
                 /\ UNCHANGED <<cam, alerts, lastCall>>
        ELSE Fallback(r, run, u)

\* img.onload, from its start to where it is suspended or returns.  With
\* no ZXing global the set-up of the reader throws, catch (zxingError)
\* logs it and PHASE 2 follows at once, no scale having been tried;
\* otherwise the pre-pass starts at scales[1].
ImgLoad(r) ==
    /\ runs[r].pc = "imgload"
    /\ runs[r].img.loads
    /\ LET u == [ui EXCEPT !.msg = Msg("Trying Heavy-Duty ZXing...")]
       IN  IF session.zxing = "undefined"
               THEN Fallback(r, runs[r], u)
           ELSE Prepass(r, 1, u)
    /\ UNCHANGED <<session, buffer>>

\* The decode the run awaits settles and img.onload resumes: a result with
\* a text is shown and the run returns; otherwise the pre-pass goes on with
\* the next scale, and after the last scale PHASE 2 runs to its end.
DecodeSettle(r) ==
    /\ runs[r].pc = "zxing"
    /\ LET run    == runs[r]
           result == decodeFromImageElement(session.zxing, run.img, scales[run.k])
       IN  IF result.ok /\ result.text # ""
               THEN /\ ui' = updateUIWithResult(ui, result.text)
                    /\ runs' = [runs EXCEPT ![r].pc = "done", ![r].status = "found",
                                            ![r].text = result.text]
                    /\ UNCHANGED <<cam, alerts, lastCall>>
           ELSE Prepass(r, run.k + 1, ui)
    /\ UNCHANGED <<session, buffer>>

----------------------------------------------------------------------------
(* The live-camera loop *)

\* scanAgainButton 'click': startScanning.  The listener has no condition
\* of its own; the user can click the button only while it is displayed,
\* from updateUIWithResult (line 893) to updateUIForScanning (line 876).
ScanAgainClick ==
    /\ ui.again
    /\ UserStartsLeft > 0
    /\ cam' = startScanning(cam)
    /\ ui' = updateUIForScanning
    /\ runs' = MarkInterrupted(runs)
    /\ lastCall' = "start"
    /\ UNCHANGED <<alerts, session, buffer>>

\* getUserMedia({video: {facingMode: 'environment'}}) resolves: handleStream
GumResolveEnv ==
    /\ cam.gumEnv > 0
    /\ cam' = handleStream([cam EXCEPT !.gumEnv = @ - 1])
    /\ UNCHANGED <<ui, runs, alerts, lastCall, session, buffer>>

\* it rejects: the catch asks for any camera
GumRejectEnv ==
    /\ cam.gumEnv > 0
    /\ cam' = [cam EXCEPT !.gumEnv = @ - 1, !.gumAny = @ + 1]
    /\ UNCHANGED <<ui, runs, alerts, lastCall, session, buffer>>

\* getUserMedia({video: true}) resolves: handleStream
GumResolveAny ==
    /\ cam.gumAny > 0
    /\ cam' = handleStream([cam EXCEPT !.gumAny = @ - 1])
    /\ UNCHANGED <<ui, runs, alerts, lastCall, session, buffer>>

\* it rejects: handleStreamError(err)
GumRejectAny(name) ==
    /\ cam.gumAny > 0
    /\ cam' = [cam EXCEPT !.gumAny = @ - 1]
    /\ ui' = [ui EXCEPT !.msg =
                 IF name = "NotAllowedError"
                     THEN Msg("Camera permission was denied. Please enable it in your browser settings.")
                     ELSE Msg("Camera access is required to scan QR codes.")]
    /\ UNCHANGED <<runs, alerts, lastCall, session, buffer>>

\* video.play() of handleStream resolves: the scanning loop is started
PlayResolve(s) ==
    /\ s \in cam.plays
    /\ LET id == RafHandle(cam.raf)
       IN  cam' = [cam EXCEPT !.plays = @ \ {s}, !.animationFrameId = id, !.raf = @ \cup {id}]
    /\ ui' = [ui EXCEPT !.loading = FALSE, !.line = TRUE]
    /\ UNCHANGED <<runs, alerts, lastCall, session, buffer>>

\* video.play() rejects
PlayReject(s) ==
    /\ s \in cam.plays
    /\ cam' = [cam EXCEPT !.plays = @ \ {s}]
    /\ ui' = [ui EXCEPT !.msg = Msg("Could not start video. Please tap the screen.")]
    /\ UNCHANGED <<runs, alerts, lastCall, session, buffer>>

\* what jsQR makes of a video frame: no code, or a code with its data
Frames == {[code |-> FALSE, data |-> ""]} \cup {[code |-> TRUE, data |-> t] : t \in QrTexts}

\* tick(), the frame callback `id`: a frame with a code stops scanning and
\* shows code.data; otherwise (no code, or the video not ready) the
\* callback is requested again.  tick reads whatever frame the video
\* element holds; it does not ask whether its stream is still live.
Tick(id, frame) ==
    /\ id \in cam.raf
    /\ LET c == [cam EXCEPT !.raf = @ \ {id}]
       IN  IF frame.code
               THEN /\ cam' = stopScanning(c)
                    /\ ui' = updateUIWithResult(ui, frame.data)
                    /\ lastCall' = "stop"
               ELSE /\ LET next == RafHandle(c.raf)
                       IN  cam' = [c EXCEPT !.animationFrameId = next, !.raf = @ \cup {next}]
                    /\ UNCHANGED <<ui, lastCall>>
    /\ UNCHANGED <<runs, alerts, session, buffer>>

----------------------------------------------------------------------------
(* The pixel filters.  An ImageData is its width, its height and its data, *)
(* the Uint8ClampedArray of 4 * width * height samples: R, G, B, A of each *)
(* pixel, row by row.  data[i] of the code is data[i + 1] here.            *)
(* JavaScript numbers are IEEE 754 doubles.  Where the code's arithmetic   *)
(* stays on integers, halves and sixteenths it is exact, and the model     *)
(* does it on integers and fractions; the gray 0.299 R + 0.587 G + 0.114 B *)
(* and the variances of applyOtsuThreshold are rounded at every operation, *)
(* and the model rounds them the same way (Double ... DoubleGreater).      *)
(* The mean of applyAdaptiveThreshold and the lookup table of              *)
(* applyHistogramEqualization are quotients of two counts, compared with a *)
(* whole number or rounded at a half: for the counts of a buffer (below    *)
(* 1500 pixels) the rounded quotient falls on the same side as the exact   *)
(* one, and the model decides on integers.                                 *)

ImageData(width, height, data) == [width |-> width, height |-> height, data |-> data]

\* what a Uint8ClampedArray holds after the number num / den (den > 0) is
\* stored in it: clamped to 0..255, rounded to the nearest integer, a tie
\* to the even one
ToUint8Clamped(num, den) ==
    IF num <= 0 THEN 0
    ELSE IF num >= 255 * den THEN 255
    ELSE LET q == num \div den
             r == num % den
         IN  IF 2 * r < den THEN q
             ELSE IF 2 * r > den THEN q + 1
             ELSE IF q % 2 = 0 THEN q ELSE q + 1

\* Natural numbers of any size, for the 53-bit significands of the doubles
\* and their products: the digits to the base 2^15, the least significant
\* first, the last one not 0 (the number 0 has no digit).
Base == 2^15

RECURSIVE Natural(_)
Natural(n) == IF n = 0 THEN <<>> ELSE <<n % Base>> \o Natural(n \div Base)

RECURSIVE Trim(_)
Trim(a) == IF a # <<>> /\ a[Len(a)] = 0 THEN Trim(SubSeq(a, 1, Len(a) - 1)) ELSE a

Digit(a, i) == IF i <= Len(a) THEN a[i] ELSE 0

RECURSIVE PlusFrom(_, _, _, _)
\* the digits of a + b from the i-th on, `carry` coming in
PlusFrom(a, b, i, carry) ==
    IF i > Len(a) /\ i > Len(b) THEN (IF carry = 0 THEN <<>> ELSE <<carry>>)
    ELSE LET x == Digit(a, i) + Digit(b, i) + carry
         IN  <<x % Base>> \o PlusFrom(a, b, i + 1, x \div Base)

Plus(a, b) == PlusFrom(a, b, 1, 0)

RECURSIVE MinusFrom(_, _, _, _)
\* the digits of a - b (a >= b) from the i-th on, `borrow` taken from them
MinusFrom(a, b, i, borrow) ==
    IF i > Len(a) THEN <<>>
    ELSE LET x == a[i] - Digit(b, i) - borrow
         IN  IF x < 0 THEN <<x + Base>> \o MinusFrom(a, b, i + 1, 1)
             ELSE <<x>> \o MinusFrom(a, b, i + 1, 0)

Minus(a, b) == Trim(MinusFrom(a, b, 1, 0))

\* a < b
Less(a, b) ==
    IF Len(a) # Len(b) THEN Len(a) < Len(b)
    ELSE LET differ == {i \in 1..Len(a) : a[i] # b[i]}
         IN  differ # {} /\ LET top == CHOOSE i \in differ : \A k \in differ : k <= i
                             IN  a[top] < b[top]

RECURSIVE TimesDigitFrom(_, _, _, _)
\* the digits of a * d (d < Base) from the i-th on, `carry` coming in
TimesDigitFrom(a, d, i, carry) ==
    IF i > Len(a) THEN (IF carry = 0 THEN <<>> ELSE <<carry>>)
    ELSE LET x == a[i] * d + carry
         IN  <<x % Base>> \o TimesDigitFrom(a, d, i + 1, x \div Base)

TimesDigit(a, d) == IF d = 0 THEN <<>> ELSE TimesDigitFrom(a, d, 1, 0)

\* a * Base^n
Raised(a, n) == IF a = <<>> THEN <<>> ELSE [i \in 1..n |-> 0] \o a

RECURSIVE TimesFrom(_, _, _)
\* a * (the digits of b from the i-th on) * Base^(i - 1)
TimesFrom(a, b, i) ==
    IF i > Len(b) THEN <<>>
    ELSE Plus(Raised(TimesDigit(a, b[i]), i - 1), TimesFrom(a, b, i + 1))

Times(a, b) == TimesFrom(a, b, 1)

RECURSIVE OverDigitFrom(_, _, _)
\* the long division of the digits of a from the i-th on by d (0 < d <=
\* Base): the quotient's digits and the remainder
OverDigitFrom(a, d, i) ==
    IF i > Len(a) THEN [quotient |-> <<>>, remainder |-> 0]
    ELSE LET higher == OverDigitFrom(a, d, i + 1)
             x      == higher.remainder * Base + a[i]
         IN  [quotient |-> <<x \div d>> \o higher.quotient, remainder |-> x % d]

\* a * 2^n, and the whole part of a / 2^n
ShiftLeft(a, n) == Raised(TimesDigit(a, 2^(n % 15)), n \div 15)

ShiftRight(a, n) ==
    IF n \div 15 >= Len(a) THEN <<>>
    ELSE Trim(OverDigitFrom(SubSeq(a, (n \div 15) + 1, Len(a)), 2^(n % 15), 1).quotient)

Odd(a) == a # <<>> /\ a[1] % 2 = 1

\* the number of binary digits of a
BitLength(a) ==
    IF a = <<>> THEN 0
    ELSE 15 * (Len(a) - 1) + CHOOSE k \in 1..15 : 2^(k - 1) <= a[Len(a)] /\ a[Len(a)] < 2^k

\* the natural number nearest a / 2^n (n >= 1), a tie going to the even one
NearestEven(a, n) ==
    LET twice  == ShiftRight(a, n - 1)
        whole  == ShiftRight(twice, 1)
        beyond == ShiftLeft(twice, n - 1) # a
    IN  IF Odd(twice) /\ (beyond \/ Odd(whole)) THEN Plus(whole, <<1>>) ELSE whole

\* A double is its sign, its 53-bit significand m and its exponent e: the
\* number m * 2^e (zero has no significand).  Double(negative, a, e) is the
\* double nearest a * 2^e, a tie going to the even significand: what an
\* operation of the code yields for the exact result a * 2^e.  (The numbers
\* of the filters stay far from the ends of the exponent range.)
Double(negative, a, e) ==
    LET length == BitLength(a)
    IN  IF a = <<>> THEN [negative |-> FALSE, m |-> <<>>, e |-> 0]
        ELSE IF length <= 53
            THEN [negative |-> negative, m |-> ShiftLeft(a, 53 - length), e |-> e - (53 - length)]
        ELSE LET m == NearestEven(a, length - 53)
             IN  IF BitLength(m) > 53
                     THEN [negative |-> negative, m |-> ShiftRight(m, 1), e |-> e + length - 52]
                     ELSE [negative |-> negative, m |-> m, e |-> e + length - 53]

\* the double of an integer (of 31 bits, so exactly that integer)
DoubleOf(n) == Double(n < 0, Natural(IF n < 0 THEN -n ELSE n), 0)

\* p / q for numbers holding the integers p and q, 0 < q <= 2^15: the
\* quotient is carried to 75 binary places, with one more digit set when
\* the division leaves a remainder, which is more than rounding asks for.
\* For a decimal literal such as 0.299 it is the literal's double.
DoubleOver(p, q) ==
    LET d == OverDigitFrom(ShiftLeft(Natural(IF p < 0 THEN -p ELSE p), 75), q, 1)
    IN  Double(p < 0,
               Plus(ShiftLeft(Trim(d.quotient), 1), IF d.remainder = 0 THEN <<>> ELSE <<1>>),
               -76)

\* x * y
DoubleTimes(x, y) == Double(x.negative # y.negative, Times(x.m, y.m), x.e + y.e)

\* x + y
DoublePlus(x, y) ==
    IF x.m = <<>> THEN y
    ELSE IF y.m = <<>> THEN x
    ELSE LET e == IF x.e <= y.e THEN x.e ELSE y.e
             a == ShiftLeft(x.m, x.e - e)
             b == ShiftLeft(y.m, y.e - e)
         IN  IF x.negative = y.negative THEN Double(x.negative, Plus(a, b), e)
             ELSE IF Less(a, b) THEN Double(y.negative, Minus(b, a), e)
             ELSE Double(x.negative, Minus(a, b), e)

\* x - y
DoubleMinus(x, y) == DoublePlus(x, [y EXCEPT !.negative = ~@])

\* x > y (the difference of two doubles is rounded to zero only when it is
\* zero)
DoubleGreater(x, y) ==
    LET d == DoubleMinus(x, y) IN d.m # <<>> /\ ~d.negative

\* what a Uint8ClampedArray holds after the double x is stored in it:
\* clamped to 0..255, rounded to the nearest integer, a tie to the even one
StoreDouble(x) ==
    IF x.m = <<>> \/ x.negative THEN 0
    ELSE IF x.e >= 0 THEN 255
    ELSE LET n == NearestEven(x.m, -x.e)
         IN  IF Less(<<255>>, n) THEN 255 ELSE Digit(n, 1)

\* of sample j: its channel (0 = R, 1 = G, 2 = B, 3 = A), and the column
\* and the row of its pixel
Channel(j) == (j - 1) % 4

Column(imageData, j) == ((j - 1) \div 4) % imageData.width

Row(imageData, j) == ((j - 1) \div 4) \div imageData.width

\* data[(y * width + x) * 4 + c]
Sample(imageData, x, y, c) == imageData.data[(y * imageData.width + x) * 4 + c + 1]

\* the red sample of the pixel sample j belongs to: data[i] for the pixel's i
Red(imageData, j) == imageData.data[j - Channel(j)]

\* the loops `for (y = radius; y < height - radius; y++)` and the same in x
\* reach the pixel of sample j
Inside(imageData, j, radius) ==
    /\ Column(imageData, j) >= radius /\ Column(imageData, j) < imageData.width - radius
    /\ Row(imageData, j) >= radius /\ Row(imageData, j) < imageData.height - radius

RECURSIVE Sum(_, _)
\* f[1] + ... + f[n]
Sum(f, n) == IF n = 0 THEN 0 ELSE f[n] + Sum(f, n - 1)

\* the 3 x 3 loop over ky, kx in -1..1 around the pixel of sample j: the sum
\* of data[((y + ky) * width + (x + kx)) * 4 + c] * kernel[(ky + 1) * 3 + (kx + 1)]
Convolve(imageData, j, c, kernel) ==
    Sum([k \in 1..9 |->
            Sample(imageData, Column(imageData, j) + ((k - 1) % 3) - 1,
                              Row(imageData, j) + ((k - 1) \div 3) - 1, c) * kernel[k]], 9)

\* 0.299 * v, 0.587 * v and 0.114 * v for the samples v = 0 .. 255 (at
\* v + 1)
RedWeighted == [v \in 1..256 |-> DoubleTimes(DoubleOver(299, 1000), DoubleOf(v - 1))] \o <<>>

GreenWeighted == [v \in 1..256 |-> DoubleTimes(DoubleOver(587, 1000), DoubleOf(v - 1))] \o <<>>

BlueWeighted == [v \in 1..256 |-> DoubleTimes(DoubleOver(114, 1000), DoubleOf(v - 1))] \o <<>>

\* the gray of the pixel whose red sample is sample i:
\* 0.299 * data[i] + 0.587 * data[i + 1] + 0.114 * data[i + 2]
gray(imageData, i) ==
    DoublePlus(DoublePlus(RedWeighted[imageData.data[i] + 1],
                          GreenWeighted[imageData.data[i + 1] + 1]),
               BlueWeighted[imageData.data[i + 2] + 1])

\* the pixel sample j belongs to, counted from 1
Pixel(j) == ((j - 1) \div 4) + 1

\* convertToGrayscale(imageData): the gray in R, G and B; A is not written
convertToGrayscale(imageData) ==
    LET stored == [p \in 1..(Len(imageData.data) \div 4) |->
                      StoreDouble(gray(imageData, 4 * p - 3))] \o <<>>
    IN  [imageData EXCEPT !.data =
            [j \in DOMAIN imageData.data |->
                IF Channel(j) = 3 THEN imageData.data[j] ELSE stored[Pixel(j)]]]

\* enhanceImageContrast(imageData): 1.5 * (v - 128) + 128 = (3 v - 128) / 2
\* in R, G and B; A is not written
enhanceImageContrast(imageData) ==
    [imageData EXCEPT !.data =
        [j \in DOMAIN imageData.data |->
            IF Channel(j) = 3 THEN imageData.data[j]
            ELSE ToUint8Clamped(3 * imageData.data[j] - 128, 2)]]

sharpenKernel == <<0, -1, 0, -1, 5, -1, 0, -1, 0>>

\* sharpenImage(imageData): output starts as a copy of data; R, G and B of
\* the pixels 1 inside are convolved with the kernel, each on its own
sharpenImage(imageData) ==
    [imageData EXCEPT !.data =
        [j \in DOMAIN imageData.data |->
            IF Channel(j) < 3 /\ Inside(imageData, j, 1)
                THEN ToUint8Clamped(Convolve(imageData, j, Channel(j), sharpenKernel), 1)
                ELSE imageData.data[j]]]

gaussianKernel == <<1, 2, 1, 2, 4, 2, 1, 2, 1>>

\* applyGaussianBlur(imageData): output starts as a copy of data; a pixel 1
\* inside gets the blurred red channel / 16 in R, G and B, and A = 255
applyGaussianBlur(imageData) ==
    [imageData EXCEPT !.data =
        [j \in DOMAIN imageData.data |->
            IF ~Inside(imageData, j, 1) THEN imageData.data[j]
            ELSE IF Channel(j) = 3 THEN 255
            ELSE ToUint8Clamped(Convolve(imageData, j, 0, gaussianKernel), 16)]]

\* values.sort((a, b) => a - b)[4] of the 9 red samples around sample j
Median9(imageData, j) ==
    LET values == [k \in 1..9 |->
                      Sample(imageData, Column(imageData, j) + ((k - 1) % 3) - 1,
                                        Row(imageData, j) + ((k - 1) \div 3) - 1, 0)]
    IN  CHOOSE v \in {values[k] : k \in 1..9} :
            /\ Cardinality({k \in 1..9 : values[k] < v}) <= 4
            /\ Cardinality({k \in 1..9 : values[k] <= v}) >= 5

\* applyMedianFilter(imageData): as the blur, with the median
applyMedianFilter(imageData) ==
    [imageData EXCEPT !.data =
        [j \in DOMAIN imageData.data |->
            IF ~Inside(imageData, j, 1) THEN imageData.data[j]
            ELSE IF Channel(j) = 3 THEN 255
            ELSE Median9(imageData, j)]]

sobelX == <<-1, 0, 1, -2, 0, 2, -1, 0, 1>>

sobelY == <<-1, -2, -1, 0, 0, 0, 1, 2, 1>>

\* what a Uint8ClampedArray holds after Math.sqrt(s) is stored: the n with
\* n - 1/2 < sqrt(s) <= n + 1/2, at most 255 (a square root is never a tie)
StoredSqrt(s) ==
    CHOOSE n \in 0..255 :
        /\ n = 0 \/ s > n * n - n
        /\ n = 255 \/ s <= n * n + n

\* applySobelEdgeDetection(imageData): output starts as
\* new Uint8ClampedArray(data.length), all zero; a pixel 1 inside gets the
\* gradient magnitude of the red channel in R, G and B, and A = 255
applySobelEdgeDetection(imageData) ==
    [imageData EXCEPT !.data =
        [j \in DOMAIN imageData.data |->
            IF ~Inside(imageData, j, 1) THEN 0
            ELSE IF Channel(j) = 3 THEN 255
            ELSE LET gx == Convolve(imageData, j, 0, sobelX)
                     gy == Convolve(imageData, j, 0, sobelY)
                 IN  StoredSqrt(gx * gx + gy * gy)]]

\* applyAdaptiveThreshold: the neighbourhood reach, and the constant
\* subtracted from the local mean
blockSize == 11

C == 8

Max(a, b) == IF a >= b THEN a ELSE b

Min(a, b) == IF a <= b THEN a ELSE b

\* the pixels (dx, dy) of the window yStart..yEnd x xStart..xEnd around the
\* pixel of sample j
AdaptiveWindow(imageData, j) ==
    LET x == Column(imageData, j)
        y == Row(imageData, j)
    IN  (Max(0, x - blockSize) .. Min(imageData.width - 1, x + blockSize))
          \X (Max(0, y - blockSize) .. Min(imageData.height - 1, y + blockSize))

RECURSIVE SumRed(_, _)
\* the sum of data[(dy * width + dx) * 4] over the pixels of `window`
SumRed(imageData, window) ==
    IF window = {} THEN 0
    ELSE LET p == CHOOSE q \in window : TRUE
         IN  Sample(imageData, p[1], p[2], 0) + SumRed(imageData, window \ {p})

\* applyAdaptiveThreshold(imageData): every pixel becomes 255 where its red
\* sample exceeds mean - C (mean = sum / count of its window), else 0, in
\* R, G and B; A is copied (output[idx + 3] = data[idx + 3])
applyAdaptiveThreshold(imageData) ==
    [imageData EXCEPT !.data =
        [j \in DOMAIN imageData.data |->
            IF Channel(j) = 3 THEN imageData.data[j]
            ELSE LET window == AdaptiveWindow(imageData, j)
                     count  == Cardinality(window)
                 IN  IF Red(imageData, j) * count > SumRed(imageData, window) - C * count
                         THEN 255 ELSE 0]]

\* the red samples of the buffer: data[i], i = 0, 4, 8, ...
Reds(imageData) == {j \in DOMAIN imageData.data : Channel(j) = 0}

\* histogram[v] of applyOtsuThreshold and applyHistogramEqualization
Histogram(imageData) ==
    [v \in 0..255 |-> Cardinality({j \in Reds(imageData) : imageData.data[j] = v})]

RECURSIVE OtsuFrom(_, _, _, _, _)
\* the loop `for (t = 0; t < 256; t++)` of applyOtsuThreshold from t on; s
\* holds sumB, wB, maxVariance and threshold.  A t whose bin is empty is
\* skipped by `continue`, or leaves wB, sumB and with them the variance as
\* they were, which then does not exceed maxVariance: the loop is taken
\* from one occupied bin to the next.
OtsuFrom(histogram, total, sum, t, s) ==
    LET later == {v \in t..255 : histogram[v] > 0}
    IN  IF later = {} THEN s.threshold
        ELSE LET u  == CHOOSE v \in later : \A w \in later : v <= w
                 wB == s.wB + histogram[u]
                 wF == total - wB
             IN  IF wF = 0 THEN s.threshold
                 ELSE LET sumB     == s.sumB + u * histogram[u]
                          mB       == DoubleOver(sumB, wB)
                          mF       == DoubleOver(sum - sumB, wF)
                          spread   == DoubleMinus(mB, mF)
                          variance == DoubleTimes(DoubleTimes(DoubleOf(wB * wF), spread), spread)
                      IN  OtsuFrom(histogram, total, sum, u + 1,
                              IF DoubleGreater(variance, s.maxVariance)
                                  THEN [sumB |-> sumB, wB |-> wB, maxVariance |-> variance,
                                        threshold |-> u]
                                  ELSE [s EXCEPT !.sumB = sumB, !.wB = wB])

\* the threshold applyOtsuThreshold settles on; sum, the sum of
\* i * histogram[i], is the sum of the red samples
OtsuThreshold(imageData) ==
    LET histogram == Histogram(imageData)
        total     == imageData.width * imageData.height
        pixels    == Len(imageData.data) \div 4
        sum       == Sum([p \in 1..pixels |-> imageData.data[4 * p - 3]], pixels)
    IN  OtsuFrom(histogram, total, sum, 0,
                 [sumB |-> 0, wB |-> 0, maxVariance |-> DoubleOf(0), threshold |-> 0])

\* the binarization at a threshold the red sample need only reach
applyOtsuThreshold_AtLeast(imageData) ==
    LET threshold == OtsuThreshold(imageData)
    IN  [imageData EXCEPT !.data =
            [j \in DOMAIN imageData.data |->
                IF Channel(j) = 3 THEN imageData.data[j]
                ELSE IF Red(imageData, j) >= threshold THEN 255 ELSE 0]]

\* applyOtsuThreshold(imageData): data[i] > threshold ? 255 : 0 in R, G and
\* B; A is not written
applyOtsuThreshold(imageData) ==
    LET threshold == OtsuThreshold(imageData)
    IN  [imageData EXCEPT !.data =
            [j \in DOMAIN imageData.data |->
                IF Channel(j) = 3 THEN imageData.data[j]
                ELSE IF Red(imageData, j) > threshold THEN 255 ELSE 0]]

\* JavaScript numbers: an integer, or what a division by zero yields
Number(n) == [kind |-> "number", value |-> n]

NaN == [kind |-> "NaN", value |-> 0]

Infinity == [kind |-> "Infinity", value |-> 0]

NegInfinity == [kind |-> "-Infinity", value |-> 0]

\* what a Uint8ClampedArray holds after a number is stored: NaN becomes 0
StoreNumber(v) ==
    IF v.kind = "number" THEN ToUint8Clamped(v.value, 1)
    ELSE IF v.kind = "Infinity" THEN 255
    ELSE 0

\* cdf[i]: the pixels whose red sample is at most i
Cdf(imageData, i) == Cardinality({j \in Reds(imageData) : imageData.data[j] <= i})

\* cdfMin: cdf at the first i where it is not zero (the least red sample of
\* the buffer), cdf[0] where there is none
CdfMin(imageData) ==
    LET present == {imageData.data[j] : j \in Reds(imageData)}
    IN  IF present = {} THEN Cdf(imageData, 0)
        ELSE Cdf(imageData, CHOOSE v \in present : \A u \in present : v <= u)

\* the divisor of the lookup table: total - cdfMin
EqualizationDivisor(imageData) == imageData.width * imageData.height - CdfMin(imageData)

\* lookupTable[i] = Math.round(((cdf[i] - cdfMin) / (total - cdfMin)) * 255):
\* Math.round(x) is floor(x + 1/2); 0 / 0 is NaN and stays NaN
LookupTable(imageData, i) ==
    LET n == Cdf(imageData, i) - CdfMin(imageData)
        d == EqualizationDivisor(imageData)
    IN  IF d = 0
            THEN (IF n = 0 THEN NaN ELSE IF n < 0 THEN NegInfinity ELSE Infinity)
            ELSE Number((510 * n + d) \div (2 * d))

\* applyHistogramEqualization(imageData): lookupTable[data[i]] in R, G and
\* B; A is not written
applyHistogramEqualization(imageData) ==
    [imageData EXCEPT !.data =
        [j \in DOMAIN imageData.data |->
            IF Channel(j) = 3 THEN imageData.data[j]
            ELSE StoreNumber(LookupTable(imageData, Red(imageData, j)))]]

\* applyBilateralFilter: diameter 5
radius == 2

\* the samples applyBilateralFilter writes: R, G and B of the pixels
\* `radius` inside
BilateralSamples(imageData) ==
    {j \in DOMAIN imageData.data : Channel(j) < 3 /\ Inside(imageData, j, radius)}

\* the samples of the channel of j in the 5 x 5 window around its pixel
BilateralWindow(imageData, j) ==
    {Sample(imageData, Column(imageData, j) + dx, Row(imageData, j) + dy, Channel(j)) :
        dx \in (-radius)..radius, dy \in (-radius)..radius}

\* the least and the greatest of a set of samples
Lowest(W) == CHOOSE v \in W : \A u \in W : v <= u

Highest(W) == CHOOSE v \in W : \A u \in W : v >= u

\* sumR / sumWeight (and G, B) is a mean of the window's samples under the
\* weights exp(-dist / 5000) * exp(-colorDiff^2 / 5000), all positive (the
\* centre's is 1, so sumWeight > 0): stored, it is some value from the
\* least to the greatest sample of the window.  Which one is left open, so
\* these are all the outputs the filter can have, one value per sample.
BilateralMeans(imageData) ==
    LET S   == BilateralSamples(imageData)
        all == UNION {BilateralWindow(imageData, j) : j \in S}
    IN  IF S = {} THEN {[j \in {} |-> 0]}
        ELSE {mean \in [S -> Lowest(all)..Highest(all)] :
                 \A j \in S :
                     /\ mean[j] >= Lowest(BilateralWindow(imageData, j))
                     /\ mean[j] <= Highest(BilateralWindow(imageData, j))}

\* applyBilateralFilter(imageData): output starts as a copy of data; R, G
\* and B of the pixels `radius` inside get their weighted means
applyBilateralFilter(imageData, mean) ==
    [imageData EXCEPT !.data =
        [j \in DOMAIN imageData.data |->
            IF j \in DOMAIN mean THEN mean[j] ELSE imageData.data[j]]]

\* the loop of scanWithFixedThreshold (lines 851-856): 255 where the gray
\* exceeds the threshold, else 0, in R, G and B, and A = 255
fixedThreshold(imageData, threshold) ==
    LET val == [p \in 1..(Len(imageData.data) \div 4) |->
                   IF DoubleGreater(gray(imageData, 4 * p - 3), DoubleOf(threshold))
                       THEN 255 ELSE 0] \o <<>>
    IN  [imageData EXCEPT !.data =
            [j \in DOMAIN imageData.data |->
                IF Channel(j) = 3 THEN 255 ELSE val[Pixel(j)]]]

----------------------------------------------------------------------------
(* The filters at work: `buffer` holds the ImageData as the last filter    *)
(* found it (input), as it left it (imageData), and the filters applied.   *)

NoImageData == ImageData(0, 0, <<>>)

\* no filter chain is at work (the page model leaves the pixels out)
NoBuffer == [input |-> NoImageData, imageData |-> NoImageData, applied |-> <<>>]

\* the ImageData of `pixels`, a sequence of <<R, G, B, A>>, width x height
Picture(width, height, pixels) ==
    ImageData(width, height,
              [j \in 1..(4 * width * height) |-> pixels[((j - 1) \div 4) + 1][Channel(j) + 1]])

\* a gray pixel
Gray(v, a) == <<v, v, v, a>>

\* every pixel the same
Flat(width, height, pixel) == Picture(width, height, [p \in 1..(width * height) |-> pixel])

\* one pixel (the middle one, for an odd size) differs from the rest
Dot(size, around, middle, a) ==
    Picture(size, size,
            [p \in 1..(size * size) |->
                IF p = (size * size + 1) \div 2 THEN Gray(middle, a) ELSE Gray(around, a)])

\* 3 x 3: the middle pixel, the top left corner and the rest
Corner(around, corner, middle, a) ==
    Picture(3, 3, [p \in 1..9 |-> IF p = 5 THEN Gray(middle, a)
                                   ELSE IF p = 1 THEN Gray(corner, a)
                                   ELSE Gray(around, a)])

Alphas == {255, 128}

\* the buffers the filters are run on: flat ones of every size, one-row
\* black-and-white ones, 3 x 3 ones with a pixel for the 3 x 3 kernels to
\* work on, 5 x 5 ones with one for the bilateral filter, coloured ones;
\* opaque and translucent.  And where the rounding of the doubles decides:
\* a pixel whose gray comes out just below 59.5 and one whose gray comes
\* out just above 180, and a row that two thresholds split with the same
\* variance, 16 / 3.
FilterInputs ==
    { Flat(sz, sz, Gray(v, a)) : sz \in {1, 3, 5}, v \in {0, 128, 255}, a \in Alphas }
    \cup { Picture(3, 1, [p \in 1..3 |-> Gray(bw[p], a)]) :
               bw \in [1..3 -> {0, 255}], a \in Alphas }
    \cup { Corner(v, k, m, a) : v \in {0, 255}, k \in {0, 100}, m \in {0, 100, 255},
                                a \in Alphas }
    \cup { Dot(5, 100, m, a) : m \in {100, 101}, a \in Alphas }
    \cup { Picture(2, 1, <<<<255, 0, 0, 255>>, <<10, 200, 30, a>>>>) : a \in Alphas }
    \cup { Picture(3, 3, [p \in 1..9 |-> IF p = 5 THEN <<0, 255, 0, a>> ELSE <<200, 30, 30, a>>]) :
               a \in Alphas }
    \cup { Picture(1, 1, <<<<0, 80, 110, 255>>>>), Picture(1, 1, <<<<123, 237, 36, 255>>>>),
           Picture(4, 1, [p \in 1..4 |-> Gray(<<0, 1, 1, 2>>[p], 255)]) }

\* the variables of the page, which a filter leaves alone
page == <<cam, ui, runs, alerts, lastCall, session>>

\* the buffer once the filter `name` has turned its ImageData into `output`
Applied(name, output) ==
    [input |-> buffer.imageData, imageData |-> output, applied |-> Append(buffer.applied, name)]

\* imageData = convertToGrayscale(imageData)
ConvertToGrayscale ==
    /\ Len(buffer.applied) < MaxFilters
    /\ buffer' = Applied("grayscale", convertToGrayscale(buffer.imageData))
    /\ UNCHANGED page

\* imageData = enhanceImageContrast(imageData)
EnhanceImageContrast ==
    /\ Len(buffer.applied) < MaxFilters
    /\ buffer' = Applied("contrast", enhanceImageContrast(buffer.imageData))
    /\ UNCHANGED page

\* imageData = sharpenImage(imageData)
SharpenImage ==
    /\ Len(buffer.applied) < MaxFilters
    /\ buffer' = Applied("sharpen", sharpenImage(buffer.imageData))
    /\ UNCHANGED page

\* imageData = applyAdaptiveThreshold(imageData)
ApplyAdaptiveThreshold ==
    /\ Len(buffer.applied) < MaxFilters
    /\ buffer' = Applied("adaptiveThreshold", applyAdaptiveThreshold(buffer.imageData))
    /\ UNCHANGED page

\* imageData = applyOtsuThreshold(imageData)
ApplyOtsuThreshold ==
    /\ Len(buffer.applied) < MaxFilters
    /\ buffer' = Applied("otsu", applyOtsuThreshold(buffer.imageData))
    /\ UNCHANGED page

\* imageData = applyHistogramEqualization(imageData)
ApplyHistogramEqualization ==
    /\ Len(buffer.applied) < MaxFilters
    /\ buffer' = Applied("histogramEqualization", applyHistogramEqualization(buffer.imageData))
    /\ UNCHANGED page

\* the samples the bilateral filter can write lie at most MaxSpread apart
\* from those it averages them with
NarrowWindows(imageData) ==
    \A j \in BilateralSamples(imageData) :
        Highest(BilateralWindow(imageData, j)) - Lowest(BilateralWindow(imageData, j)) <= MaxSpread

\* imageData = applyBilateralFilter(imageData)
ApplyBilateralFilter ==
    /\ Len(buffer.applied) < MaxFilters
    /\ NarrowWindows(buffer.imageData)
    /\ \E mean \in BilateralMeans(buffer.imageData) :
           buffer' = Applied("bilateral", applyBilateralFilter(buffer.imageData, mean))
    /\ UNCHANGED page

\* imageData = applySobelEdgeDetection(imageData)
ApplySobelEdgeDetection ==
    /\ Len(buffer.applied) < MaxFilters
    /\ buffer' = Applied("sobel", applySobelEdgeDetection(buffer.imageData))
    /\ UNCHANGED page

\* imageData = applyGaussianBlur(imageData)
ApplyGaussianBlur ==
    /\ Len(buffer.applied) < MaxFilters
    /\ buffer' = Applied("gaussianBlur", applyGaussianBlur(buffer.imageData))
    /\ UNCHANGED page

\* imageData = applyMedianFilter(imageData)
ApplyMedianFilter ==
    /\ Len(buffer.applied) < MaxFilters
    /\ buffer' = Applied("median", applyMedianFilter(buffer.imageData))
    /\ UNCHANGED page

\* the thresholds of the strategy list (lines 198-200)
Thresholds ==
    {methods[i].threshold : i \in {i \in 1..Len(methods) : methods[i].fn = "scanWithFixedThreshold"}}

\* the binarization loop of scanWithFixedThreshold(img, threshold)
FixedThreshold(threshold) ==
    /\ Len(buffer.applied) < MaxFilters
    /\ buffer' = Applied("fixedThreshold", fixedThreshold(buffer.imageData, threshold))
    /\ UNCHANGED page

----------------------------------------------------------------------------
(* Specifications *)

\* before the DOMContentLoaded handler has called startScanning
NoCamera ==
    [currentStream |-> 0, animationFrameId |-> 0, tracks |-> <<>>, gumEnv |-> 0,
     gumAny |-> 0, plays |-> {}, srcObject |-> 0, raf |-> {}, starts |-> 0]

\* the page once the DOMContentLoaded handler has returned: startScanning()
\* has run, the page has the ZXing library `zxing`, and the user can pick
\* any of `files` up to `maxRuns` times
Loaded(files, zxing, maxRuns, maxStarts) ==
    /\ cam = startScanning(NoCamera)
    /\ ui = updateUIForScanning
    /\ runs = <<>>
    /\ alerts = 0
    /\ lastCall = "start"
    /\ session = [files |-> files, zxing |-> zxing, maxRuns |-> maxRuns,
                  maxStarts |-> maxStarts]

Next ==
    \/ \E f \in session.files : ScanImageFile(f)
    \/ ScanImageFileNoFile
    \/ \E r \in DOMAIN runs : ReaderLoad(r)
    \/ \E r \in DOMAIN runs : ImgLoad(r)
    \/ \E r \in DOMAIN runs : DecodeSettle(r)
    \/ ScanAgainClick
    \/ GumResolveEnv
    \/ GumRejectEnv
    \/ GumResolveAny
    \/ \E name \in {"NotAllowedError", "NotFoundError"} : GumRejectAny(name)
    \/ \E s \in cam.plays : PlayResolve(s)
    \/ \E s \in cam.plays : PlayReject(s)
    \/ \E id \in cam.raf, frame \in Frames : Tick(id, frame)

\* the whole page: any of the session files, several runs
Init ==
    /\ \E zxing \in ZXingLibraries : Loaded(SessionFiles, zxing, MaxRuns, MaxStarts)
    /\ buffer = NoBuffer

Spec == Init /\ [][Next]_vars

\* the files tried on a page whose ZXing throws or is missing, where what
\* ZXing would have made of the image plays no part: images of every size
\* that ZXing would decode at any scale
LibraryFiles == {f \in OrchFiles : f.loads /\ f.robust = AllScales /\ f.text = Url}

\* the orchestrator on every kind of image, with every kind of ZXing: one
\* file, selected once
InitOrch ==
    /\ \E f \in OrchFiles, zxing \in ZXingLibraries :
           /\ zxing # "promise" => f \in LibraryFiles
           /\ Loaded({f}, zxing, 1, OrchStarts)
    /\ buffer = NoBuffer

SpecOrch == InitOrch /\ [][Next]_vars

\* a step of run r.  The browser fires the FileReader's load event, fires
\* the load event of an image it can decode, and the ZXing promise settles:
\* a run that can take a step eventually takes it.
RunStep(r) ==
    /\ r \in DOMAIN runs
    /\ (ReaderLoad(r) \/ ImgLoad(r) \/ DecodeSettle(r))

\* the orchestrator on the images no decode attempt finds a code in (and,
\* beside them, the session files), with the fairness of a run's steps
InitExhaust ==
    \E f \in {g \in OrchFiles : g.loads /\ g.robust = {} /\ g.fast \subseteq g.raises}
                \cup SessionFiles,
       zxing \in ZXingLibraries :
        /\ zxing # "promise" => (f.fast = {} /\ f.raises = {})
        /\ Loaded({f}, zxing, 1, OrchStarts)
        /\ buffer = NoBuffer

SpecExhaustFair == InitExhaust /\ [][Next]_vars /\ WF_vars(RunStep(1))

\* the filters on their own: a buffer as getImageData returns it, and any
\* filters applied to it, one after the other (the page is left as loaded)
InitFilters ==
    /\ Loaded({}, "promise", 0, 1)
    /\ \E b \in FilterInputs : buffer = [input |-> b, imageData |-> b, applied |-> <<>>]

NextFilters ==
    \/ ConvertToGrayscale
    \/ EnhanceImageContrast
    \/ SharpenImage
    \/ ApplyAdaptiveThreshold
    \/ ApplyOtsuThreshold
    \/ ApplyHistogramEqualization
    \/ ApplyBilateralFilter
    \/ ApplySobelEdgeDetection
    \/ ApplyGaussianBlur
    \/ ApplyMedianFilter
    \/ \E threshold \in Thresholds : FixedThreshold(threshold)

SpecFilters == InitFilters /\ [][NextFilters]_vars

----------------------------------------------------------------------------
(* The claims.  What they say of an image is said through the decoders:    *)

\* what the Robust engine of this page answers for the image drawn at
\* scale s; without the library, or when the call throws, nothing
RobustAnswer(img, s) ==
    IF session.zxing = "undefined" THEN [threw |-> TRUE, ok |-> FALSE, text |-> ""]
    ELSE decodeFromImageElement(session.zxing, img, s)

\* ZXing yields a decoded text for the image drawn at scale s
YieldsText(img, s) ==
    LET result == RobustAnswer(img, s) IN result.ok /\ result.text # ""

\* the strategy with view v yields a decoded text for the image
Succeeds(img, v) ==
    LET out == Scan(img, v.chain, v.scale) IN ~out.threw /\ Truthy(out.value)

\* the strategy with view v throws on the image
Throws(img, v) == Scan(img, v.chain, v.scale).threw

IsRobust(c) == c.eng = "Robust"

IsFast(c) == c.eng = "Fast"

RobustCalls(run) == SelectSeq(run.calls, IsRobust)

FastCalls(run) == SelectSeq(run.calls, IsFast)

\* the pre-pass scales in the order the specification gives them
ListedScales == <<100, 75, 50, 150, 200>>

ContrastChain == <<Step("grayscale"), Step("contrast")>>

\* the strategies in the order the specification lists them
ListedStrategies == <<
    [chain |-> <<>>, scale |-> 100],
    [chain |-> <<StepArg("fixedThreshold", 180)>>, scale |-> 100],
    [chain |-> <<StepArg("fixedThreshold", 210)>>, scale |-> 100],
    [chain |-> <<StepArg("fixedThreshold", 140)>>, scale |-> 100],
    [chain |-> ContrastChain, scale |-> 50],
    [chain |-> ContrastChain, scale |-> 25],
    [chain |-> ContrastChain, scale |-> 75],
    [chain |-> <<Step("grayscale"), Step("gaussianBlur"), Step("otsu")>>, scale |-> 100],
    [chain |-> <<Step("grayscale"), Step("median")>>, scale |-> 100],
    [chain |-> <<Step("grayscale"), Step("otsu")>>, scale |-> 100],
    [chain |-> <<Step("grayscale"), Step("histogramEqualization")>>, scale |-> 100],
    [chain |-> ContrastChain, scale |-> 150],
    [chain |-> ContrastChain, scale |-> 200] >>

\* the pre-pass scales at which ZXing yields a text, and the listed
\* strategies that succeed, by position
YieldingScales(img) == {k \in 1..Len(ListedScales) : YieldsText(img, ListedScales[k])}

SucceedingStrategies(img) ==
    {i \in 1..Len(ListedStrategies) : Succeeds(img, ListedStrategies[i])}

Least(S) == CHOOSE x \in S : \A y \in S : x <= y

\* the pre-pass of a run: its attempts are the listed scales in order, on
\* the unfiltered image, none after one that yielded a text, and a run that
\* ends on an image with a yielding scale ends there, with that text
PrepassInOrder(run) ==
    LET rc == RobustCalls(run)
        fc == FastCalls(run)
        ys == YieldingScales(run.img)
    IN  /\ run.calls = rc \o fc
        /\ Len(rc) <= Len(ListedScales)
        /\ \A k \in 1..Len(rc) : rc[k].view.scale = ListedScales[k] /\ rc[k].view.chain = <<>>
        /\ \A k \in 1..(Len(rc) - 1) : k \notin ys
        /\ (run.pc = "done" /\ ys # {}) =>
               /\ Len(rc) = Least(ys)
               /\ fc = <<>>
               /\ run.status = "found" /\ run.text = run.img.text

\* C1 as stated: in a still-image run the Robust pre-pass is attempted at
\* scales 1.0, 0.75, 0.5, 1.5, 2.0 in that order and stops at the first
\* scale that yields a text; the Fast strategy list is entered if and only
\* if all five attempts yielded no text, and no Fast decode precedes the
\* end of the pre-pass.
C1_Original ==
    \A r \in DOMAIN runs :
        LET run == runs[r]
            rc  == RobustCalls(run)
            fc  == FastCalls(run)
            ys  == YieldingScales(run.img)
        IN  /\ PrepassInOrder(run)
            /\ fc # <<>> => (Len(rc) = Len(ListedScales) /\ ys = {})
            /\ (run.pc = "done" /\ ys = {}) => (Len(rc) = Len(ListedScales) /\ fc # <<>>)

\* the pre-pass attempts of a run that has gone through the pre-pass: all
\* five, or none when the page has no Robust engine to set up
PrepassAttempts == IF session.zxing = "undefined" THEN 0 ELSE Len(ListedScales)

\* C1 amended: the pre-pass is attempted at scales 1.0, 0.75, 0.5, 1.5, 2.0
\* in that order and stops at the first scale that yields a text, or is
\* not attempted at all when the Robust engine cannot be set up; the Fast
\* strategy list is entered if and only if the pre-pass yielded no text
\* (all five attempts made and none yielding, or no attempt made for want
\* of the engine), and no Fast decode precedes the end of the pre-pass.
C1_PrepassOrderAndShortCircuit ==
    \A r \in DOMAIN runs :
        LET run == runs[r]
            rc  == RobustCalls(run)
            fc  == FastCalls(run)
            ys  == YieldingScales(run.img)
        IN  /\ PrepassInOrder(run)
            /\ session.zxing = "undefined" => rc = <<>>
            /\ fc # <<>> => (Len(rc) = PrepassAttempts /\ ys = {})
            /\ (run.pc = "done" /\ ys = {}) => (Len(rc) = PrepassAttempts /\ fc # <<>>)

\* a run that missed at 1.0 and 0.75, found the text at 0.5 and stopped,
\* on an image ZXing would also have decoded at 1.5
C1_Witness ==
    \E r \in DOMAIN runs :
        /\ runs[r].pc = "done" /\ runs[r].status = "found"
        /\ Len(runs[r].calls) = 3
        /\ runs[r].calls[3].eng = "Robust" /\ runs[r].calls[3].view.scale = 50
        /\ YieldsText(runs[r].img, 150)

\* C2: tryMultipleDetectionMethods executes the 13 strategies strictly in
\* the listed order, each at most once; it returns the text of the
\* lowest-index strategy that succeeds, and executes no strategy after it.
C2_StrategiesInListedOrder ==
    \A r \in DOMAIN runs :
        LET run == runs[r]
            fc  == FastCalls(run)
            ok  == SucceedingStrategies(run.img)
        IN  fc # <<>> =>
                /\ Len(fc) <= Len(ListedStrategies)
                /\ \A j \in 1..Len(fc) : fc[j].i = j /\ fc[j].view = ListedStrategies[j]
                /\ Len(fc) = IF ok = {} THEN Len(ListedStrategies) ELSE Least(ok)
                /\ ok # {} => (run.status = "found" /\ run.text = run.img.text)
                /\ ok = {} => run.status = "notfound"

\* a run that found the text with strategy 5 although strategy 11 would
\* have succeeded as well
C2_Witness ==
    \E r \in DOMAIN runs :
        /\ runs[r].status = "found"
        /\ Len(FastCalls(runs[r])) = 5
        /\ SucceedingStrategies(runs[r].img) = {5, 11}

\* the images only the grayscale -> Gaussian blur -> Otsu strategy decodes
OnlyBlurOtsuDecodes(img) ==
    /\ img.loads
    /\ YieldingScales(img) = {}
    /\ \A v \in Views : Succeeds(img, v) <=> v.chain = DenoiseChain

\* C3 as stated: on an image only grayscale -> blur -> Otsu decodes, the
\* strategies 1 to 9 are executed in order and success is reported at
\* index 9, by that strategy.
C3_Original ==
    \A r \in DOMAIN runs :
        (runs[r].pc = "done" /\ OnlyBlurOtsuDecodes(runs[r].img)) =>
            LET fc == FastCalls(runs[r])
            IN  /\ runs[r].status = "found"
                /\ Len(fc) = 9
                /\ \A j \in 1..Len(fc) : fc[j].i = j
                /\ fc[Len(fc)].view.chain = DenoiseChain

\* C3 amended: on such an image the strategies 1 to 8 are executed in
\* order and success is reported at index 8, by the grayscale -> blur ->
\* Otsu strategy, which is the 8th of the list; the 9th (median) is not
\* executed.
C3_BlurOtsuIsEighth ==
    \A r \in DOMAIN runs :
        (runs[r].pc = "done" /\ OnlyBlurOtsuDecodes(runs[r].img)) =>
            LET fc == FastCalls(runs[r])
            IN  /\ runs[r].status = "found" /\ runs[r].text = runs[r].img.text
                /\ Len(fc) = 8
                /\ \A j \in 1..Len(fc) : fc[j].i = j /\ fc[j].view = ListedStrategies[j]
                /\ fc[Len(fc)].view.chain = DenoiseChain
                /\ \A j \in 1..Len(fc) : fc[j].view.chain # MedianChain

\* a finished run on an image only grayscale -> blur -> Otsu decodes
C3_Witness ==
    \E r \in DOMAIN runs :
        /\ runs[r].pc = "done" /\ OnlyBlurOtsuDecodes(runs[r].img)
        /\ runs[r].status = "found"

\* the images every engine and every strategy decodes
EverythingDecodes(img) ==
    /\ img.loads
    /\ \A k \in 1..Len(ListedScales) : YieldsText(img, ListedScales[k])
    /\ \A v \in Views : Succeeds(img, v)

\* C4 as stated: for an image every engine and every strategy decodes, the
\* reported text is produced by the first listed strategy (Original, scale
\* 1.0) with the Fast engine.
C4_Original ==
    \A r \in DOMAIN runs :
        (runs[r].pc = "done" /\ EverythingDecodes(runs[r].img)) =>
            LET last == runs[r].calls[Len(runs[r].calls)]
            IN  /\ runs[r].status = "found"
                /\ last.eng = "Fast" /\ last.i = 1
                /\ last.view = [chain |-> <<>>, scale |-> 100]

\* C4 amended: for such an image the reported text is produced by the
\* Robust engine in the first pre-pass attempt (the unfiltered image at
\* scale 1.0); it is the run's only decode attempt, and no Fast strategy is
\* executed.
C4_RobustFirstAttemptReports ==
    \A r \in DOMAIN runs :
        (runs[r].pc = "done" /\ EverythingDecodes(runs[r].img)) =>
            /\ runs[r].status = "found" /\ runs[r].text = runs[r].img.text
            /\ Len(runs[r].calls) = 1
            /\ runs[r].calls[1].eng = "Robust"
            /\ runs[r].calls[1].view = [chain |-> <<>>, scale |-> 100]
            /\ FastCalls(runs[r]) = <<>>

\* a finished run on an image everything decodes, its text on display
C4_Witness ==
    \E r \in DOMAIN runs :
        /\ runs[r].pc = "done" /\ EverythingDecodes(runs[r].img)
        /\ ui.found /\ ui.text = runs[r].img.text

\* the decoder finds no code: ZXing at scale s, the strategy with view v
RobustMisses(img, s) == ~RobustAnswer(img, s).ok

FastMisses(img, v) == LET out == Scan(img, v.chain, v.scale) IN out.threw \/ out.value.null

\* the images on which every decode attempt misses
EveryAttemptMisses(img) ==
    /\ img.loads
    /\ \A k \in 1..Len(ListedScales) : RobustMisses(img, ListedScales[k])
    /\ \A i \in 1..Len(ListedStrategies) : FastMisses(img, ListedStrategies[i])

\* the first n pre-pass attempts followed by the 13 strategy attempts,
\* each once
ExhaustiveCalls(calls, n) ==
    /\ Len(calls) = n + Len(ListedStrategies)
    /\ \A k \in 1..n :
           /\ calls[k].eng = "Robust" /\ calls[k].i = k
           /\ calls[k].view = [chain |-> <<>>, scale |-> ListedScales[k]]
    /\ \A i \in 1..Len(ListedStrategies) :
           LET c == calls[n + i]
           IN  c.eng = "Fast" /\ c.i = i /\ c.view = ListedStrategies[i]

IsPrefix(a, b) == Len(a) <= Len(b) /\ \A j \in 1..Len(a) : a[j] = b[j]

\* a finished run on an all-miss image made the 18 attempts and alerted
C5_ExactlyEighteen ==
    \A r \in DOMAIN runs :
        (runs[r].pc = "done" /\ EveryAttemptMisses(runs[r].img)) =>
            /\ runs[r].status = "notfound"
            /\ ExhaustiveCalls(runs[r].calls, Len(ListedScales))
            /\ alerts >= 1

\* a finished run on an all-miss image made the pre-pass attempts the page
\* allows (5, or none without the Robust engine) and the 13 strategy
\* attempts, and alerted
C5_AllAttempts ==
    \A r \in DOMAIN runs :
        (runs[r].pc = "done" /\ EveryAttemptMisses(runs[r].img)) =>
            /\ runs[r].status = "notfound"
            /\ ExhaustiveCalls(runs[r].calls, PrepassAttempts)
            /\ alerts >= 1

\* a step only extends a run's attempts, none of them made twice, and a
\* finished run stays as it is
C5_NeverBack ==
    \A r \in DOMAIN runs :
        /\ IsPrefix(runs[r].calls, runs'[r].calls)
        /\ \A i, j \in DOMAIN runs'[r].calls : runs'[r].calls[i] = runs'[r].calls[j] => i = j
        /\ runs[r].pc = "done" => runs'[r] = runs[r]

\* the run of the single-run specification terminates on an all-miss image
C5_Terminates ==
    (runs # <<>> /\ EveryAttemptMisses(runs[1].img)) ~> (runs # <<>> /\ runs[1].pc = "done")

\* C5 as stated: for an image on which every decode attempt misses, a
\* still-image run always terminates: it performs exactly the 5 Robust
\* pre-pass attempts and then the 13 strategy attempts, each once, and
\* reports "not found"; it never repeats an attempt or goes back.
C5_Original ==
    /\ [] C5_ExactlyEighteen
    /\ [][C5_NeverBack]_vars
    /\ C5_Terminates

\* C5 amended: for such an image a still-image run always terminates: it
\* performs exactly the 5 Robust pre-pass attempts (none when the Robust
\* engine cannot be set up) and then exactly the 13 strategy attempts,
\* each once, and reports "not found"; it never repeats an attempt or goes
\* back.  (Termination is stated of the run of the single-run
\* specification, run 1.)
C5_ExhaustsAndTerminates ==
    /\ [] C5_AllAttempts
    /\ [][C5_NeverBack]_vars
    /\ C5_Terminates

\* an exhausted run, its alert raised
C5_Witness ==
    \E r \in DOMAIN runs :
        /\ runs[r].pc = "done" /\ EveryAttemptMisses(runs[r].img)
        /\ runs[r].status = "notfound" /\ Len(runs[r].calls) = 18
        /\ alerts = 1

ThrowingStrategies(img) ==
    {i \in 1..Len(ListedStrategies) : Throws(img, ListedStrategies[i])}

\* C6: an exception of strategy i is caught at that strategy and counted
\* as a miss of strategy i only: every strategy after i is still executed,
\* in order, until one succeeds, and no exception leaves
\* tryMultipleDetectionMethods.
C6_ThrowIsAMiss ==
    \A r \in DOMAIN runs :
        LET run == runs[r]
            fc  == FastCalls(run)
            ok  == SucceedingStrategies(run.img)
        IN  /\ run.status # "error"
            /\ \A i \in ThrowingStrategies(run.img) :
                   (fc # <<>> /\ \A j \in ok : j > i) =>
                       /\ Len(fc) >= i /\ fc[i].view = ListedStrategies[i]
                       /\ Len(fc) = IF ok = {} THEN Len(ListedStrategies) ELSE Least(ok)
                       /\ \A j \in (i + 1)..Len(fc) : fc[j].i = j /\ fc[j].view = ListedStrategies[j]
                       /\ run.status = IF ok = {} THEN "notfound" ELSE "found"
                       /\ ok # {} => run.text = run.img.text

\* a run in which a strategy threw and a later one found the text
C6_Witness ==
    \E r \in DOMAIN runs :
        /\ runs[r].status = "found"
        /\ \E i \in ThrowingStrategies(runs[r].img) : i < Len(FastCalls(runs[r]))

\* a still-image run in progress: started, and neither a result nor
\* not-found reported yet (the file being an image)
InProgress(run) == run.img.loads /\ run.pc # "done"

\* C7 as stated: while a still-image run is in progress, no live camera
\* stream is held and no tick callback is pending.
C7_Original ==
    (\E r \in DOMAIN runs : InProgress(runs[r])) =>
        (LiveStreams(cam) = {} /\ cam.raf = {})

\* C8 as stated: at most one acquired stream has un-stopped tracks, and
\* every un-stopped stream is the one currentStream refers to.
C8_Original ==
    /\ Cardinality(LiveStreams(cam)) <= 1
    /\ \A s \in LiveStreams(cam) : s = cam.currentStream

\* C9 as stated: after a call of stopScanning and until the next call of
\* startScanning, no camera stream is held and no tick is scheduled.
C9_Original ==
    lastCall = "stop" => (LiveStreams(cam) = {} /\ cam.currentStream = 0 /\ cam.raf = {})

\* a step leaves an interrupted run's attempts and outcome as they are
C10_NoFurtherStep ==
    \A r \in DOMAIN runs :
        runs[r].interrupted =>
            (runs'[r].calls = runs[r].calls /\ runs'[r].status = runs[r].status)

\* C10 as stated: a still-image run interrupted at a Robust decode call (by
\* another file selection or a restart of scanning) invokes no further
\* decode attempt and reports nothing afterwards.
C10_Original == [][C10_NoFurtherStep]_vars

----------------------------------------------------------------------------
(* The end of a run and the recovery of live scanning *)

\* the step is one of run r's own: its position or its attempts change
StepOfRun(r) ==
    \/ runs'[r].pc # runs[r].pc
    \/ runs'[r].k # runs[r].k
    \/ runs'[r].calls # runs[r].calls

\* the step is a call of startScanning and nothing else on the camera side:
\* one more call counted, one more rear-camera request pending, no stream
\* and no frame callback held
RestartsLiveScanning ==
    /\ cam'.starts = cam.starts + 1
    /\ cam'.gumEnv = cam.gumEnv + 1
    /\ cam'.currentStream = 0 /\ cam'.animationFrameId = 0
    /\ lastCall' = "start"
    /\ ui' = updateUIForScanning

\* what a step of a run does to the camera and the alerts
C11_RunEnd ==
    \A r \in DOMAIN runs :
        StepOfRun(r) =>
            LET ends == runs'[r].pc = "done"
            IN  /\ (ends /\ EveryAttemptMisses(runs[r].img)) => runs'[r].status = "notfound"
                /\ (ends /\ runs'[r].status = "notfound") =>
                       (alerts' = alerts + 1 /\ RestartsLiveScanning)
                /\ (ends /\ runs'[r].status = "found") =>
                       (alerts' = alerts /\ cam' = cam /\ lastCall' = lastCall)
                /\ ~ends => (alerts' = alerts /\ cam' = cam /\ lastCall' = lastCall)

\* C11: a still-image run that ends in total exhaustion (the pre-pass and
\* all 13 strategies miss) reports not-found (one alert) and restarts live
\* scanning, startScanning being called exactly once by the run: in its
\* last step, and in no earlier step of the run; a run that ends in success
\* calls neither alert nor startScanning.
C11_ExhaustionRestartsOnce == [][C11_RunEnd]_vars

\* an exhausted run: alerted once, startScanning called by the page load
\* and by the run, the rear camera requested again
C11_Witness ==
    \E r \in DOMAIN runs :
        /\ runs[r].pc = "done" /\ runs[r].status = "notfound"
        /\ EveryAttemptMisses(runs[r].img)
        /\ alerts = 1 /\ cam.starts = 2 /\ lastCall = "start" /\ cam.gumEnv >= 1

----------------------------------------------------------------------------
(* Images without area, and resampling to nothing *)

\* the source image has no area
ZeroArea(img) == img.w = 0 \/ img.h = 0

\* C12 as stated: a malformed or zero-area source image makes the run fail
\* fast: no strategy of the 13-entry list is executed for it, and the run
\* does not go on to report not-found as for an image without a code (the
\* error is surfaced instead).
C12_Original ==
    \A r \in DOMAIN runs :
        (~runs[r].img.loads \/ ZeroArea(runs[r].img)) =>
            /\ FastCalls(runs[r]) = <<>>
            /\ runs[r].status # "notfound"

\* the size of the canvas a decode attempt resamples the image to
ResampledWidth(img, c) == Floor(img.w, c.view.scale)

ResampledHeight(img, c) == Floor(img.h, c.view.scale)

\* the attempt hands its canvas on: the pre-pass passes tempCanvas to ZXing
\* whatever its size (lines 151-155); a strategy reads the canvas back with
\* getImageData first, which rejects a zero width or height, so that no
\* filter and no decoder sees it
HandsBufferOn(img, c) ==
    IsRobust(c) \/ (ResampledWidth(img, c) > 0 /\ ResampledHeight(img, c) > 0)

\* C13 as stated: for every source size W x H (W, H >= 1) and every scale
\* of the pre-pass or of a strategy, resampling yields a buffer of at least
\* 1 x 1 or the request is rejected: no buffer with a zero dimension is
\* created and handed on to a filter or decoder.
C13_Original ==
    \A r \in DOMAIN runs :
        \A j \in DOMAIN runs[r].calls :
            LET img == runs[r].img
                c   == runs[r].calls[j]
            IN  (img.w >= 1 /\ img.h >= 1 /\ HandsBufferOn(img, c)) =>
                    (ResampledWidth(img, c) >= 1 /\ ResampledHeight(img, c) >= 1)

----------------------------------------------------------------------------
(* The filters *)

\* the filter applied last is `name`: buffer.input is what it was given,
\* buffer.imageData what it returned
Filtered(name) ==
    buffer.applied # <<>> /\ buffer.applied[Len(buffer.applied)] = name

\* the colour samples (R, G, B) and the alpha samples of a buffer
ColourSamples(imageData) == {j \in DOMAIN imageData.data : Channel(j) < 3}

AlphaSamples(imageData) == {j \in DOMAIN imageData.data : Channel(j) = 3}

\* a flat grayscale image: every pixel has the same intensity in R, G and B
UniformGray(imageData) ==
    /\ imageData.data # <<>>
    /\ \E v \in 0..255 : \A j \in ColourSamples(imageData) : imageData.data[j] = v

\* C14 as stated: applyHistogramEqualization on a uniform grayscale image
\* (total == cdfMin) performs no division by zero, and every colour sample
\* it returns is the input value (a value of 0..255, which clamping leaves
\* as it is).
C14_Original ==
    (Filtered("histogramEqualization") /\ UniformGray(buffer.input)) =>
        /\ EqualizationDivisor(buffer.input) # 0
        /\ \A j \in ColourSamples(buffer.input) :
               buffer.imageData.data[j] = buffer.input.data[j]

\* an already binarized image: R = G = B, 0 or 255, in every pixel
Binarized(imageData) ==
    \A j \in ColourSamples(imageData) :
        imageData.data[j] \in {0, 255} /\ imageData.data[j] = Red(imageData, j)

\* C15: applyOtsuThreshold is idempotent on already-binarized input: for
\* every image whose pixels all have R = G = B in {0, 255} (all black, all
\* white or mixed) it returns an image identical to its input, so that
\* applying it twice equals applying it once.
C15_OtsuIdempotentOnBinarized ==
    (Filtered("otsu") /\ Binarized(buffer.input)) => buffer.imageData = buffer.input

\* applyOtsuThreshold applied to what applyOtsuThreshold returned, a mixed
\* image (black and white pixels) with translucent pixels
C15_Witness ==
    /\ buffer.applied = <<"otsu", "otsu">>
    /\ Binarized(buffer.input)
    /\ \E j, k \in Reds(buffer.input) : buffer.input.data[j] = 0 /\ buffer.input.data[k] = 255
    /\ \E j \in AlphaSamples(buffer.input) : buffer.input.data[j] < 255
    /\ buffer.imageData = buffer.input

\* the samples of the outermost ring, `width` pixels wide
Ring(imageData, width) == {j \in DOMAIN imageData.data : ~Inside(imageData, j, width)}

\* the last filter left every sample of the ring as it was
RingUnmodified(width) ==
    \A j \in Ring(buffer.input, width) : buffer.imageData.data[j] = buffer.input.data[j]

\* C16 as stated: after sharpenImage, applyGaussianBlur, applyMedianFilter
\* and applySobelEdgeDetection every sample (R, G, B and A) of the outermost
\* 1-pixel ring equals its input value, and after applyBilateralFilter
\* every sample of the outermost 2-pixel ring.
C16_Original ==
    /\ (\E name \in {"sharpen", "gaussianBlur", "median", "sobel"} : Filtered(name)) =>
           RingUnmodified(1)
    /\ Filtered("bilateral") => RingUnmodified(2)

\* the filters that rewrite the colour channels
RewritingFilters ==
    {"grayscale", "contrast", "otsu", "histogramEqualization", "adaptiveThreshold",
     "gaussianBlur", "median", "sobel", "fixedThreshold"}

\* C17 as stated: after any filter that rewrites the colour channels every
\* pixel of the resulting buffer has alpha = 255, whatever the alpha of the
\* input pixels.
C17_Original ==
    (\E name \in RewritingFilters : Filtered(name)) =>
        \A j \in AlphaSamples(buffer.imageData) : buffer.imageData.data[j] = 255

----------------------------------------------------------------------------
(* Codes with any payload *)

\* the decoder call c of a run on img returns a decoded code, whatever its
\* text: ZXing resolves with a result, jsQR returns a code object
ReturnsCode(img, c) ==
    IF IsRobust(c) THEN RobustAnswer(img, c.view.scale).ok
    ELSE LET out == Scan(img, c.view.chain, c.view.scale)
         IN  ~out.threw /\ ~out.value.null

\* C18 as stated: a still-image run reports "not found" only if every
\* decode attempt of the run returned no code: whenever some Robust or Fast
\* decoder call returns a code, whatever its payload (the empty string
\* included), the run makes no later attempt, and ends in success with that
\* payload, never in the not-found alert.
C18_Original ==
    \A r \in DOMAIN runs :
        LET run == runs[r]
        IN  \A j \in DOMAIN run.calls :
                ReturnsCode(run.img, run.calls[j]) =>
                    /\ j = Len(run.calls)
                    /\ run.status # "notfound"
                    /\ run.pc = "done" => (run.status = "found" /\ run.text = run.img.text)

====
